---- MODULE Spec2Model ----
(***************************************************************************)
(* Model of the fluent JSON Schema builder (FluentJSONSchema.cjs).         *)
(*                                                                         *)
(* Encoding of JavaScript values                                           *)
(*  - a string / number / boolean is a sequence of tokens (Str("a") is     *)
(*    <<"a">>), so that template strings and String.replace can be         *)
(*    computed; the character '#' is always a token of its own;            *)
(*  - undefined is the value UNDEF and the symbol REQUIRED is a value that *)
(*    is no string;                                                        *)
(*  - a plain object is the sequence of its <<key, value>> pairs in        *)
(*    insertion order (the order Object.entries enumerates);               *)
(*  - an array is a sequence.                                              *)
(***************************************************************************)
EXTENDS Naturals, Sequences, FiniteSets, TLC

\* ------------------------------------------------------------------------
\* Bounds of the exploration
\* ------------------------------------------------------------------------
\* calls chained from a new builder
MaxCalls == 3

\* the same, when nested schemas are explored
MaxCallsIds == 2

\* the same, when every operation is explored
MaxCallsAll == 1

\* the same, when the setters of BaseSchema are explored
MaxCallsSetters == 2

\* the same, when raw ingestion is explored
MaxCallsRaw == 2

\* the same, when extend is explored
MaxCallsExtend == 2

\* the same, when the kinds of builders are explored
MaxCallsKinds == 2

\* the same, when the clauses of ifThen and ifThenElse are explored
MaxCallsClauses == 2

\* ------------------------------------------------------------------------
\* JavaScript values
\* ------------------------------------------------------------------------
Str(t) == <<t>>

UNDEF == <<"?undefined">>

REQUIRED == <<"?required">>

Truthy(v) == v # UNDEF /\ v # <<>>

\* typeof v === 'string', taking every value for a string
IsString_any(v) == TRUE

\* typeof v === 'string'
IsString(v) == v # REQUIRED /\ v # UNDEF

EmptyObj == <<>>

Has(o, k) == \E i \in DOMAIN o : o[i][1] = k

Get(o, k) ==
  IF Has(o, k) THEN o[CHOOSE i \in DOMAIN o : o[i][1] = k][2] ELSE UNDEF

\* obj[k] = v : an existing key keeps its position, a new key goes last
Put(o, k, v) ==
  IF Has(o, k)
    THEN [i \in DOMAIN o |-> IF o[i][1] = k THEN <<k, v>> ELSE o[i]]
    ELSE Append(o, <<k, v>>)

\* { ...a, ...b }
RECURSIVE Spread(_, _)
Spread(a, b) ==
  IF b = <<>> THEN a ELSE Spread(Put(a, b[1][1], b[1][2]), Tail(b))

\* const { k1, k2, ...rest } = o
Rest(o, ks) == SelectSeq(o, LAMBDA p : p[1] \notin ks)

\* Array.prototype.indexOf, 0 when absent
IndexOf(a, v) ==
  IF \E i \in DOMAIN a : a[i] = v
    THEN CHOOSE i \in DOMAIN a : a[i] = v /\ \A j \in 1..(i - 1) : a[j] # v
    ELSE 0

Includes(a, v) == \E i \in DOMAIN a : a[i] = v

\* ------------------------------------------------------------------------
\* utils
\* ------------------------------------------------------------------------
hasCombiningKeywords(attributes) ==
  \/ Has(attributes, "allOf") \/ Has(attributes, "anyOf")
  \/ Has(attributes, "oneOf") \/ Has(attributes, "not")

\* last, returning the first element
last_first(array) == array[1]

\* undefined is modelled by the empty array: callers test Len(array) > 0
last(array) == array[Len(array)]

\* isUniq, accepting every array
isUniq_lax(array) == TRUE

isUniq(array) ==
  Cardinality({i \in DOMAIN array : IndexOf(array, array[i]) = i}) = Len(array)

omit(obj, props) == SelectSeq(obj, LAMBDA p : p[1] \notin props)

RECURSIVE flatFrom(_, _)
flatFrom(memo, array) ==
  IF array = <<>> THEN memo
  ELSE flatFrom(Put(memo, Get(array[1], "name")[1], Rest(array[1], {"name"})),
                Tail(array))

flat(array) == flatFrom(EmptyObj, array)

toArray(obj) ==
  [i \in DOMAIN obj |-> Spread(<<<<"name", Str(obj[i][1])>>>>, obj[i][2])]

\* String.prototype.replace('#', ''): the first '#' is removed
RECURSIVE replaceHash(_)
replaceHash(s) ==
  IF s = <<>> THEN <<>>
  ELSE IF s[1] = "#" THEN Tail(s)
  ELSE <<s[1]>> \o replaceHash(Tail(s))

\* keys whose value is an array (Array.isArray(value))
ArrayKeys == {"required", "enum", "examples", "allOf", "anyOf", "oneOf"}

RECURSIVE patchProperties(_, _, _, _)
patchProperties(memo, properties, generateIds, parentId) ==
  IF properties = <<>> THEN memo
  ELSE
    LET key   == properties[1][1]
        props == properties[1][2]
        id    == IF Truthy(Get(props, "$id")) THEN Get(props, "$id")
                 ELSE IF generateIds THEN <<"#", "properties", "/", key>>
                 ELSE UNDEF
        newId == IF generateIds /\ Truthy(parentId)
                   THEN parentId \o <<"/">> \o replaceHash(id)
                   ELSE id
    IN patchProperties(Put(memo, key, Put(props, "$id", newId)),
                       Tail(properties), generateIds, parentId)

patchIdsWithParentId(schema, generateIds, parentId) ==
  LET properties == IF Has(schema, "properties")
                      THEN Get(schema, "properties") ELSE <<>>
  IN IF Len(properties) = 0 THEN schema
     ELSE Put(schema, "properties",
              patchProperties(EmptyObj, properties, generateIds, parentId))

\* the result of a call: ok is FALSE when FluentSchemaError is thrown
Thrown(v) == [ok |-> FALSE, val |-> v]
Returned(v) == [ok |-> TRUE, val |-> v]

\* appendRequired without the check of the patched list
appendRequired_unchecked(attributes, schema) ==
  LET name     == Get(attributes, "name")
      required == IF Has(attributes, "required")
                    THEN Get(attributes, "required") ELSE <<>>
      rest     == Rest(attributes, {"name", "required"})
      schemaRequired ==
        [i \in 1..Len(SelectSeq(required, LAMBDA item : item = REQUIRED))
           |-> name]
      attributeRequired == SelectSeq(required, LAMBDA item : item # REQUIRED)
      patchedRequired == Get(schema, "required") \o schemaRequired
  IN Returned(<<Put(schema, "required", patchedRequired),
                Put(rest, "required", attributeRequired)>>)

appendRequired(attributes, schema) ==
  LET name     == Get(attributes, "name")
      required == IF Has(attributes, "required")
                    THEN Get(attributes, "required") ELSE <<>>
      rest     == Rest(attributes, {"name", "required"})
      schemaRequired ==
        [i \in 1..Len(SelectSeq(required, LAMBDA item : item = REQUIRED))
           |-> name]
      attributeRequired == SelectSeq(required, LAMBDA item : item # REQUIRED)
      patchedRequired == Get(schema, "required") \o schemaRequired
  IN IF ~isUniq(patchedRequired)
       THEN Thrown(<<schema, EmptyObj>>)
       ELSE Returned(<<Put(schema, "required", patchedRequired),
                       Put(rest, "required", attributeRequired)>>)

\* assignIf, putting the key first
assignIf_first(target, cond, key, value) ==
  IF cond THEN << <<key, value>> >> \o target ELSE target

\* Object.assign(target, cond ? { [key]: value } : undefined)
assignIf(target, cond, key, value) ==
  IF cond THEN Put(target, key, value) ELSE target

\* BaseSchema.valueOf
valueOf(schema, isRoot) ==
  IF /\ isRoot
     /\ Has(schema, "required")
     /\ ~(\A i \in DOMAIN Get(schema, "required") :
            IsString(Get(schema, "required")[i]))
    THEN Thrown(EmptyObj)
    ELSE Returned(
      assignIf(
        assignIf(
          assignIf(
            assignIf(
              assignIf(
                Spread(
                  assignIf(
                    assignIf(EmptyObj, Truthy(Get(schema, "$schema")),
                             "$schema", Get(schema, "$schema")),
                    Has(schema, "definitions")
                      /\ Len(Get(schema, "definitions")) > 0,
                    "definitions", flat(Get(schema, "definitions"))),
                  omit(Rest(schema, {"properties", "definitions", "required",
                                     "$schema"}),
                       {"if", "then", "else"})),
                Has(schema, "properties") /\ Len(Get(schema, "properties")) > 0,
                "properties", flat(Get(schema, "properties"))),
              Has(schema, "required") /\ Len(Get(schema, "required")) > 0,
              "required", Get(schema, "required")),
            Has(schema, "if"), "if", Get(schema, "if")),
          Has(schema, "then"), "then", Get(schema, "then")),
        Has(schema, "else"), "else", Get(schema, "else")))

\* ------------------------------------------------------------------------
\* Builders.  A builder is the set of closures one factory call returns:
\*   schema  : the binding `schema` of the BaseSchema call (captured by the
\*             base methods: title, required, raw, valueOf, _getState, ...)
\*   oschema : the binding `schema` of the ObjectSchema call (captured by
\*             prop, definition, id, only, without, extend, minProperties)
\*   gen     : options.generateIds
\*   kind    : the factory that made the closures, "object", "string", ...,
\*             "extended" for what extend returns
\*   fac     : options.factory, the factory the setters call
\* ------------------------------------------------------------------------
factory(kind, schema, generateIds) ==
  [kind |-> kind, fac |-> kind, gen |-> generateIds, schema |-> schema,
   oschema |-> schema]

\* K({ schema, ...options }): the closures of K, options.factory being fac
carry(builder, fac) == [builder EXCEPT !.fac = fac]

NoBuilder == factory("none", EmptyObj, FALSE)

\* rebind, reaching the binding of the BaseSchema call as well
rebind_all(builder, schemaPatched) ==
  [builder EXCEPT !.oschema = schemaPatched, !.schema = schemaPatched]

\* `schema = schemaPatched` in prop rebinds the ObjectSchema parameter only
rebind(builder, schemaPatched) == [builder EXCEPT !.oschema = schemaPatched]

initialState ==
  << <<"$schema", <<"http:", "/", "/", "json-schema.org", "/", "draft-07", "/", "schema", "#">> >>,
     <<"definitions", <<>> >>,
     <<"properties", <<>> >>,
     <<"required", <<>> >> >>

\* strip undefined values or empty arrays or internals
RECURSIVE strip(_, _)
strip(memo, entries) ==
  IF entries = <<>> THEN memo
  ELSE LET key == entries[1][1]
           value == entries[1][2]
       IN IF \/ key = "$schema"
             \/ key = "def"
             \/ (key \notin ArrayKeys /\ key \notin {"properties", "definitions"}
                   /\ value = UNDEF)
             \/ (key \in ArrayKeys /\ Len(value) = 0)
            THEN strip(memo, Tail(entries))
            ELSE strip(Put(memo, key, value), Tail(entries))

\* propReturn, keeping the attributes next to $ref
propReturn_merged(schema, generateIds, name, target, ref, attributes) ==
  [ok |-> TRUE,
   val |-> factory("object",
              Put(schema, target,
                  Append(Get(schema, target),
                         Spread(<< <<"name", Str(name)>> >>, attributes))),
              generateIds),
   closure |-> schema]

\* ObjectSchema.prop, the return: the entry goes last in schema[target]
propReturn(schema, generateIds, name, target, ref, attributes) ==
  [ok |-> TRUE,
   val |-> factory("object",
              Put(schema, target,
                  Append(Get(schema, target),
                         IF Truthy(ref)
                           THEN << <<"name", Str(name)>>, <<"$ref", ref>> >>
                           ELSE Spread(<< <<"name", Str(name)>> >>, attributes))),
              generateIds),
   closure |-> schema]

\* ObjectSchema.prop from `const type` on: schema and attributes are the
\* variables as they are after the isFluentSchema(props) block
propEntry(schema, generateIds, name, target, id, attributes) ==
  propReturn(schema, generateIds, name, target, Get(attributes, "$ref"),
             strip(EmptyObj,
                   Put(Put(attributes, "$id", id), "type",
                       IF hasCombiningKeywords(attributes)
                         THEN UNDEF ELSE Get(attributes, "type"))))

\* ObjectSchema.prop, the end of the isFluentSchema(props) block: appended is
\* what appendRequired returned or threw
propPatched(schema, generateIds, name, target, id, appended) ==
  IF ~appended.ok
    THEN [ok |-> FALSE, val |-> NoBuilder, closure |-> schema]
    ELSE propEntry(appended.val[1], generateIds, name, target, id,
                   appended.val[2])

\* ObjectSchema.prop from `const $id` on
propAttributes(schema, generateIds, name, fluent, target, id, attributes) ==
  IF fluent
    THEN propPatched(schema, generateIds, name, target, id,
           appendRequired(
             Put(patchIdsWithParentId(attributes, generateIds, id),
                 "name", Str(name)),
             schema))
    ELSE propEntry(schema, generateIds, name, target, id, attributes)

\* ObjectSchema.prop from `let attributes` on
propTarget(schema, generateIds, name, fluent, target, attributes) ==
  propAttributes(schema, generateIds, name, fluent, target,
                 IF Truthy(Get(attributes, "$id")) THEN Get(attributes, "$id")
                 ELSE IF generateIds THEN <<"#", target, "/", name>>
                 ELSE UNDEF,
                 attributes)

\* ObjectSchema.prop on the closure binding `schema`; props is a builder
\* (fluent) or a plain object.  val is the returned builder, closure the
\* binding `schema` when the call ends.
prop(schema, generateIds, name, props, fluent) ==
  propTarget(schema, generateIds, name, fluent,
             IF ~fluent /\ Truthy(Get(props, "def"))
               THEN "definitions" ELSE "properties",
             IF fluent THEN valueOf(props.schema, FALSE).val ELSE props)

hasProps(schema) ==
  Has(schema, "properties") /\ Len(Get(schema, "properties")) > 0

setAttribute(kind, schema, generateIds, key, value) ==
  IF hasProps(schema)
    THEN LET currentProp == last(Get(schema, "properties"))
             name == Get(currentProp, "name")[1]
             props == Rest(currentProp, {"name"})
         IN Returned(carry(prop(schema, generateIds, name,
                                Spread(<< <<key, value>> >>, props), FALSE).val,
                           kind))
    ELSE Returned(factory(kind, Put(schema, key, value), generateIds))

setRaw(kind, schema, generateIds, raw) ==
  IF hasProps(schema)
    THEN LET currentProp == last(Get(schema, "properties"))
             name == Get(currentProp, "name")[1]
             props == Rest(currentProp, {"name"})
         IN Returned(carry(prop(schema, generateIds, name,
                                Spread(raw, props), FALSE).val,
                           kind))
    ELSE Returned(factory(kind, Spread(schema, raw), generateIds))

\* the methods a factory returns, in groups: "base" is the methods of
\* BaseSchema (valueOf and raw among them), "string", "number", "object" and
\* "array" the keyword setters of the kind, "null" is valueOf, raw and null,
\* "extend" is valueOf, _getState and extend
groupsOf(kind) ==
  CASE kind = "string" -> {"base", "string"}
    [] kind \in {"number", "integer"} -> {"base", "number"}
    [] kind = "object" -> {"base", "object"}
    [] kind = "array" -> {"base", "array"}
    [] kind \in {"boolean", "base"} -> {"base"}
    [] kind = "null" -> {"null"}
    [] kind = "extended" -> {"extend"}
    [] OTHER -> {}

\* the methods of a builder; MixedSchema spreads the factories of the types
\* schema.type includes
methodsOf(builder) ==
  IF builder.kind = "mixed"
    THEN UNION {groupsOf(Get(builder.schema, "type")[i][1]) :
                  i \in DOMAIN Get(builder.schema, "type")}
    ELSE groupsOf(builder.kind)

\* obj && obj.isFluentSchema: every group of methods comes with the flag
isFluentSchema(obj) == methodsOf(obj) # {}

\* setComposeType, leaving $schema in the values
setComposeType_keep(kind, schema, generateIds, key, schemas, isArray) ==
  IF ~(isArray /\ \A i \in DOMAIN schemas : isFluentSchema(schemas[i]))
    THEN Thrown(NoBuilder)
    ELSE Returned(factory(kind,
           Put(schema, key,
               [i \in DOMAIN schemas |-> valueOf(schemas[i].schema, FALSE).val]),
           generateIds))

\* setComposeType; isArray is Array.isArray(schemas), and a value that is no
\* builder is NoBuilder
setComposeType(kind, schema, generateIds, key, schemas, isArray) ==
  IF ~(isArray /\ \A i \in DOMAIN schemas : isFluentSchema(schemas[i]))
    THEN Thrown(NoBuilder)
    ELSE Returned(factory(kind,
           Put(schema, key,
               [i \in DOMAIN schemas |->
                  Rest(valueOf(schemas[i].schema, FALSE).val, {"$schema"})]),
           generateIds))

\* clauseOf, leaving the type in the clause
clauseOf_typed(clause, generateIds, parentId) ==
  patchIdsWithParentId(
    omit(valueOf(clause.schema, TRUE).val, {"$schema", "definitions"}),
    generateIds, parentId)

\* the clause of ifThen: omit(clause.valueOf(), [...]) with its ids patched
clauseOf(clause, generateIds, parentId) ==
  patchIdsWithParentId(
    omit(valueOf(clause.schema, TRUE).val, {"$schema", "definitions", "type"}),
    generateIds, parentId)

\* BaseSchema.ifThen
ifThen(kind, schema, generateIds, ifClause, thenClause) ==
  IF ~isFluentSchema(ifClause) \/ ~isFluentSchema(thenClause)
    THEN Thrown(NoBuilder)
  ELSE IF ~valueOf(ifClause.schema, TRUE).ok \/ ~valueOf(thenClause.schema, TRUE).ok
    THEN Thrown(NoBuilder)
  ELSE Returned(factory(kind,
         Put(Put(schema, "if", clauseOf(ifClause, generateIds, <<"#", "if">>)),
             "then", clauseOf(thenClause, generateIds, <<"#", "then">>)),
         generateIds))

\* BaseSchema.ifThenElse
ifThenElse(kind, schema, generateIds, ifClause, thenClause, elseClause) ==
  IF \/ ~isFluentSchema(ifClause) \/ ~isFluentSchema(thenClause)
     \/ ~isFluentSchema(elseClause)
    THEN Thrown(NoBuilder)
  ELSE IF \/ ~valueOf(ifClause.schema, TRUE).ok
          \/ ~valueOf(thenClause.schema, TRUE).ok
          \/ ~valueOf(elseClause.schema, TRUE).ok
    THEN Thrown(NoBuilder)
  ELSE Returned(factory(kind,
         Put(Put(Put(schema,
                     "if", clauseOf(ifClause, generateIds, <<"#", "if">>)),
                 "then", clauseOf(thenClause, generateIds, <<"#", "then">>)),
             "else", clauseOf(elseClause, generateIds, <<"#", "else">>)),
         generateIds))

\* BaseSchema.not
not(kind, schema, generateIds, sub) ==
  IF ~isFluentSchema(sub) THEN Thrown(NoBuilder)
  ELSE IF ~valueOf(sub.schema, TRUE).ok THEN Thrown(NoBuilder)
  ELSE Returned(carry(
         factory("base",
           Put(schema, "not",
               patchIdsWithParentId(
                 omit(valueOf(sub.schema, TRUE).val, {"$schema", "definitions"}),
                 generateIds, <<"#", "not">>)),
           generateIds),
         kind))

\* typeof v === 'number' and Number.isInteger(v), for the values 1, 1.5, 'a'
Numbers == {Str("1"), Str("1.5")}

isInteger(v) == v = Str("1")

\* NumberSchema.minimum, exclusiveMinimum, maximum, exclusiveMaximum and
\* multipleOf: key is the keyword
numberSetter(kind, schema, generateIds, key, value) ==
  IF value \notin Numbers THEN Thrown(NoBuilder)
  ELSE IF Get(schema, "type") = Str("integer") /\ ~isInteger(value)
    THEN Thrown(NoBuilder)
  ELSE setAttribute(kind, schema, generateIds, key, value)

\* the element of items as it is stored: v.valueOf() without $schema; a value
\* that is no builder is the plain object {}, whose valueOf() is itself
itemOf(v) ==
  IF isFluentSchema(v) THEN Rest(valueOf(v.schema, TRUE).val, {"$schema"})
  ELSE EmptyObj

\* ArraySchema.items; isArray is Array.isArray(items)
items(kind, schema, generateIds, value, isArray) ==
  IF isArray
    THEN IF ~\E i \in DOMAIN value : isFluentSchema(value[i])
           THEN Thrown(NoBuilder)
         ELSE IF \E i \in DOMAIN value :
                   isFluentSchema(value[i]) /\ ~valueOf(value[i].schema, TRUE).ok
           THEN Thrown(NoBuilder)
         ELSE setAttribute(kind, schema, generateIds, "items",
                           [i \in DOMAIN value |-> itemOf(value[i])])
  ELSE IF ~isFluentSchema(value) THEN Thrown(NoBuilder)
  ELSE IF ~valueOf(value.schema, TRUE).ok THEN Thrown(NoBuilder)
  ELSE setAttribute(kind, schema, generateIds, "items", itemOf(value))

\* BaseSchema.required; isArray is Array.isArray(props)
required(kind, schema, generateIds, props, isArray) ==
  LET list == IF isArray THEN Get(schema, "required") \o props
              ELSE IF hasProps(schema)
                THEN Append(Get(schema, "required"),
                            Get(last(Get(schema, "properties")), "name"))
              ELSE <<REQUIRED>>
  IN IF ~isUniq(list) THEN Thrown(NoBuilder)
     ELSE Returned(factory(kind, Put(schema, "required", list), generateIds))

\* BaseSchema.id
id(kind, schema, generateIds, value) ==
  IF ~Truthy(value) THEN Thrown(NoBuilder)
  ELSE setAttribute(kind, schema, generateIds, "$id", value)

\* ObjectSchema.id
objectId(kind, schema, generateIds, value) ==
  IF ~Truthy(value) THEN Thrown(NoBuilder)
  ELSE Returned(factory(kind, Put(schema, "$id", value), generateIds))

only(schema, generateIds, properties) ==
  Returned(factory("object",
    Put(Put(omit(schema, {"$id", "properties"}),
            "properties",
            SelectSeq(Get(schema, "properties"),
                      LAMBDA e : Get(e, "name") \in properties)),
        "required",
        SelectSeq(Get(schema, "required"), LAMBDA q : q \in properties)),
    generateIds))

without(schema, generateIds, properties) ==
  Returned(factory("object",
    Put(Put(omit(schema, {"$id", "properties"}),
            "properties",
            SelectSeq(Get(schema, "properties"),
                      LAMBDA e : Get(e, "name") \notin properties)),
        "required",
        SelectSeq(Get(schema, "required"), LAMBDA q : q \notin properties)),
    generateIds))

definition(schema, generateIds, name, props) ==
  Returned(prop(schema, generateIds, name,
                Put(valueOf(props.schema, FALSE).val, "def", Str("true")),
                FALSE).val)

\* ------------------------------------------------------------------------
\* combineDeepmerge = deepmerge({ mergeArray: combineArray }).  The value
\* under a key is a primitive, an array of primitives (ArrayKeys), a list
\* of named entries (properties/definitions of a builder state) or a map
\* from names to objects (properties/definitions of a serialized schema).
\* ------------------------------------------------------------------------
RECURSIVE mergeObject(_, _, _)

\* combineArray on arrays of primitives: no element is a mergeable object
RECURSIVE combinePrimitives(_, _, _, _)
combinePrimitives(target, result, source, index) ==
  IF index > Len(source) THEN result
  ELSE LET item == source[index]
           next == IF index > Len(result) THEN Append(result, item)
                   ELSE IF ~Includes(target, item) THEN Append(result, item)
                   ELSE result
       IN combinePrimitives(target, next, source, index + 1)

\* combineArray on lists of named entries
RECURSIVE combineEntries(_, _, _, _)
combineEntries(target, result, source, index) ==
  IF index > Len(source) THEN result
  ELSE LET item == source[index]
           found == {j \in DOMAIN target :
                       Get(target[j], "name") = Get(item, "name")}
           propIndex == CHOOSE j \in found : \A k \in found : j <= k
           next == IF index > Len(result) THEN Append(result, item)
                   ELSE IF found # {}
                     THEN [result EXCEPT
                             ![propIndex] = mergeObject(target[propIndex], item, FALSE)]
                   ELSE Append(result, item)
       IN combineEntries(target, next, source, index + 1)

combineArray(key, target, source) ==
  IF key \in ArrayKeys THEN combinePrimitives(target, target, source, 1)
  ELSE combineEntries(target, target, source, 1)

\* mergeObject of @fastify/deepmerge: the keys only target has come first,
\* then the keys of source; state is TRUE for a builder state, FALSE for a
\* serialized schema
mergeObject(target, source, state) ==
  LET targetOnly == SelectSeq(target, LAMBDA p : ~Has(source, p[1]))
      mergeMap(t, s) ==
        SelectSeq(t, LAMBDA p : ~Has(s, p[1])) \o
        [i \in DOMAIN s |->
           IF Has(t, s[i][1])
             THEN <<s[i][1], mergeObject(Get(t, s[i][1]), s[i][2], FALSE)>>
             ELSE s[i]]
      merged(key, t, v) ==
        IF key \in ArrayKeys THEN combineArray(key, t, v)
        ELSE IF key \in {"properties", "definitions"}
          THEN IF state THEN combineArray(key, t, v) ELSE mergeMap(t, v)
        ELSE v
  IN targetOnly \o
     [i \in DOMAIN source |->
        IF Has(target, source[i][1])
          THEN <<source[i][1],
                 merged(source[i][1], Get(target, source[i][1]), source[i][2])>>
          ELSE source[i]]

combineDeepmerge(target, source) == mergeObject(target, source, TRUE)

\* ObjectSchema.extend; a base that is no builder is NoBuilder
extend(schema, generateIds, base) ==
  IF ~isFluentSchema(base) THEN Thrown(NoBuilder)
  ELSE Returned(factory("extended", combineDeepmerge(base.schema, schema),
                        generateIds))

\* RawSchema, case 'object'
RawObject(fragment) ==
  Spread(<< <<"type", Get(fragment, "type")>>,
            <<"definitions", IF Has(fragment, "definitions")
                               THEN toArray(Get(fragment, "definitions"))
                               ELSE <<>> >>,
            <<"properties", IF Has(fragment, "properties")
                              THEN toArray(Get(fragment, "properties"))
                              ELSE <<>> >>,
            <<"required", IF Has(fragment, "required")
                            THEN Get(fragment, "required") ELSE <<>> >> >>,
         Rest(fragment, {"type", "definitions", "properties", "required"}))

\* RawSchema of a plain object: the switch on schema.type
RawSchema(fragment) ==
  IF Get(fragment, "type") = Str("object")
    THEN Returned(factory("object", RawObject(fragment), FALSE))
  ELSE IF Get(fragment, "type") \in
            {Str("string"), Str("integer"), Str("number"), Str("boolean"),
             Str("array")}
    THEN Returned(carry(
           factory(Get(fragment, "type")[1],
             Spread(<< <<"type", Get(fragment, "type")>> >>,
                    Rest(fragment,
                         {"type", "definitions", "properties", "required"})),
             FALSE),
           IF Get(fragment, "type") = Str("integer")
             THEN "number" ELSE Get(fragment, "type")[1]))
  ELSE Returned(factory("base",
         Rest(fragment, {"type", "definitions", "properties", "required"}),
         FALSE))

\* S.withOptions({ generateIds }).object() and .string()
S_object(generateIds) ==
  setAttribute("object", initialState, generateIds, "type", Str("object")).val

S_string(generateIds) ==
  setAttribute("string", initialState, generateIds, "type", Str("string")).val

\* S.withOptions({ generateIds }).null()
S_null(generateIds) ==
  setAttribute("null", initialState, generateIds, "type", Str("null")).val

\* S.withOptions({ generateIds }).mixed(['string', 'null'])
S_mixed(generateIds) ==
  factory("mixed", Put(initialState, "type", <<Str("string"), Str("null")>>),
          generateIds)

\* S.withOptions({ generateIds }).number(), .integer(), .boolean(), .array()
S_number(generateIds) ==
  setAttribute("number", initialState, generateIds, "type", Str("number")).val

S_integer(generateIds) ==
  setAttribute("integer", initialState, generateIds, "type", Str("integer")).val

S_boolean(generateIds) ==
  setAttribute("boolean", initialState, generateIds, "type", Str("boolean")).val

S_array(generateIds) ==
  setAttribute("array", initialState, generateIds, "type", Str("array")).val

\* the names of the kinds
TYPES ==
  {Str("string"), Str("number"), Str("boolean"), Str("integer"), Str("object"),
   Str("array"), Str("null")}

\* S.withOptions({ generateIds }).mixed(types); isArray is Array.isArray(types)
mixed(generateIds, types, isArray) ==
  IF ~isArray \/ \E i \in DOMAIN types : types[i] \notin TYPES
    THEN Thrown(NoBuilder)
    ELSE Returned(factory("mixed", Put(initialState, "type", types),
                          generateIds))

\* the initial state of BaseSchema
initialStateBase == << <<"properties", <<>> >>, <<"required", <<>> >> >>

\* the BaseSchema() spread into the export: S.title(..), S.enum(..), ...
S_base == factory("base", initialStateBase, FALSE)

\* the builder of a kind
S_new(kind, generateIds) ==
  CASE kind = "object" -> S_object(generateIds)
    [] kind = "string" -> S_string(generateIds)
    [] kind = "null" -> S_null(generateIds)
    [] kind = "mixed" -> S_mixed(generateIds)
    [] kind = "base" -> S_base
    [] kind = "number" -> S_number(generateIds)
    [] kind = "integer" -> S_integer(generateIds)
    [] kind = "boolean" -> S_boolean(generateIds)
    [] kind = "array" -> S_array(generateIds)

\* ------------------------------------------------------------------------
\* Inputs of the calls
\* ------------------------------------------------------------------------
Names == {"a", "b"}

Titles == {Str("x"), Str("y")}

Ids == {<<"myId">>}

\* the values given to id when its check matters: '', '#' and 'myId'
IdValues == {<<>>, <<"#">>, <<"myId">>}

Counts == {Str("1")}

DefNames == {"d"}

RequiredLists == {<<Str("a")>>, <<Str("b"), Str("a")>>, <<Str("a"), Str("a")>>}

NameSets == {{Str("a")}, {Str("b")}}

RawFragments ==
  { << <<"title", Str("y")>> >>,
    << <<"required", <<Str("a"), Str("a")>> >> >> }

ObjectFragments ==
  { << <<"type", Str("object")>>,
       <<"properties", << <<"a", << <<"type", Str("string")>> >> >> >> >>,
       <<"required", <<Str("a")>> >> >>,
    << <<"type", Str("object")>>,
       <<"required", <<Str("b"), Str("b")>> >> >> }

\* the builders passed as sub-schemas: string(), string().required(),
\* string().title('x')
SubString == S_string(FALSE)

SubRequired == required("string", SubString.schema, FALSE, <<>>, FALSE).val

SubTitle == setAttribute("string", SubString.schema, FALSE, "title", Str("x")).val

Subs == {SubString, SubRequired, SubTitle}

\* object().prop('a', string())
SubObject == prop(S_object(FALSE).oschema, FALSE, "a", S_string(FALSE), TRUE).val

\* the clauses given to ifThen
Clauses == {<<SubObject, SubObject>>, <<SubObject, NoBuilder>>}

\* string().ref('#a')
SubRef == setAttribute("string", SubString.schema, FALSE, "$ref", <<"#", "a">>).val

\* string().id('myId')
SubId == id("string", SubString.schema, FALSE, <<"myId">>).val

\* the builders passed to extend
Bases ==
  { prop(S_object(FALSE).oschema, FALSE, "a", S_string(FALSE), TRUE).val,
    required("object", S_object(FALSE).schema, FALSE, <<Str("b")>>, TRUE).val }

\* the clauses given to ifThen and ifThenElse when they are explored:
\* object().prop('a', string().id('myId')),
\* withOptions({ generateIds: true }).object().prop('a', string()),
\* object().prop('b', string()).required(),
\* object().definition('d', string()).prop('a', string().title('x')),
\* object().prop('b', object().prop('a', string())), and string().required(),
\* whose valueOf() raises
ClauseId == prop(S_object(FALSE).oschema, FALSE, "a", SubId, TRUE).val

ClauseGen == prop(S_object(TRUE).oschema, TRUE, "a", S_string(FALSE), TRUE).val

ClauseRequired ==
  required("object",
           prop(S_object(FALSE).oschema, FALSE, "b", S_string(FALSE), TRUE).val.schema,
           FALSE, <<>>, FALSE).val

ClauseDefined ==
  prop(definition(S_object(FALSE).oschema, FALSE, "d", S_string(FALSE)).val.oschema,
       FALSE, "a", SubTitle, TRUE).val

ClauseNested == prop(S_object(FALSE).oschema, FALSE, "b", SubObject, TRUE).val

ClausePairs ==
  { <<SubObject, ClauseRequired>>, <<ClauseId, ClauseDefined>>,
    <<ClauseNested, SubObject>>, <<SubObject, SubRequired>>,
    <<ClauseGen, SubObject>>, <<SubObject, NoBuilder>>, <<NoBuilder, SubObject>> }

ClauseTriples ==
  { <<SubObject, ClauseRequired, ClauseDefined>>,
    <<ClauseId, ClauseGen, SubObject>>,
    <<SubObject, SubObject, NoBuilder>> }

\* the builders passed to extend when its merge is explored:
\* object().prop('a', string()), object().required(['b']),
\* object().prop('a', string()).title('y'),
\* object().definition('d', string()).prop('b', string().title('x')),
\* string()
BaseTitled ==
  setAttribute("object",
               prop(S_object(FALSE).oschema, FALSE, "a", S_string(FALSE), TRUE).val.schema,
               FALSE, "title", Str("y")).val

BaseDefined ==
  prop(definition(S_object(FALSE).oschema, FALSE, "d", S_string(FALSE)).val.oschema,
       FALSE, "b", SubTitle, TRUE).val

ExtendBases == Bases \cup {BaseTitled, BaseDefined, SubString}

\* ------------------------------------------------------------------------
\* State: a caller holding a builder in a variable, and the last result
\* ------------------------------------------------------------------------
VARIABLES
  b,     \* the builder the calls are made on
  res,   \* what the last call returned: [ok, val], val a builder
  out,   \* what the last valueOf returned: [ok, val], val a plain object
  call,  \* the last call: [op, name, value]
  n,     \* the number of calls chained to obtain b
  taint, \* [b, res]: a fragment whose required array repeats a name went
         \* into b / into res
  err    \* the error the last call has thrown: "none", "FluentSchemaError"
         \* or "TypeError"

vars == <<b, res, out, call, n, taint, err>>

\* the error of a call whose throw is `throw new FluentSchemaError`
errorOf(r) == IF r.ok THEN "none" ELSE "FluentSchemaError"

NoRes == [ok |-> FALSE, val |-> NoBuilder]
NoOut == [ok |-> FALSE, val |-> EmptyObj]
Called(op, name, value) == [op |-> op, name |-> name, value |-> value]

Init ==
  /\ b = S_object(FALSE)
  /\ res = NoRes
  /\ out = NoOut
  /\ call = Called("new", "", <<>>)
  /\ n = 0
  /\ taint = [b |-> FALSE, res |-> FALSE]
  /\ err = "none"

\* the builder has the methods of ObjectSchema
isObject(builder) == "object" \in methodsOf(builder)

\* a sequence in which some element occurs twice
Repeats(list) == \E i, j \in DOMAIN list : i # j /\ list[i] = list[j]

\* a fragment whose required array repeats a name
repeats(fragment) ==
  Has(fragment, "required") /\ Repeats(Get(fragment, "required"))

\* the caller holds no result of a call
Idle == call.op \in {"new", "chain", "drop", "ingest"}

\* the builder has the methods of BaseSchema (NullSchema keeps valueOf and
\* raw only, the result of extend valueOf, _getState and extend)
hasMethods(builder) == "base" \in methodsOf(builder)

\* ObjectSchema({ schema, ...options }), as prop, only and without return it
carried(r, fac) == IF r.ok THEN Returned(carry(r.val, fac)) ELSE r

\* b = S.withOptions({ generateIds }).object() / .string() / ...
New(kind, generateIds) ==
  /\ Idle
  /\ b' = S_new(kind, generateIds)
  /\ res' = NoRes
  /\ out' = NoOut
  /\ call' = Called("new", "", <<>>)
  /\ n' = 0
  /\ taint' = [b |-> FALSE, res |-> FALSE]
  /\ err' = "none"

\* b = (the builder the last call returned)
Chain(max) ==
  /\ res.ok
  /\ n < max
  /\ b' = res.val
  /\ res' = NoRes
  /\ out' = NoOut
  /\ call' = Called("chain", "", <<>>)
  /\ n' = n + 1
  /\ taint' = [b |-> taint.res, res |-> FALSE]
  /\ err' = "none"

\* the caller lets go of the result of the last call
Drop ==
  /\ ~Idle
  /\ res' = NoRes
  /\ out' = NoOut
  /\ call' = Called("drop", "", <<>>)
  /\ taint' = [taint EXCEPT !.res = FALSE]
  /\ err' = "none"
  /\ UNCHANGED <<b, n>>

\* b.prop(name, sub)
Prop(name, sub) ==
  /\ Idle
  /\ isObject(b)
  /\ LET r == prop(b.oschema, b.gen, name, sub, TRUE)
     IN /\ res' = carried([ok |-> r.ok, val |-> r.val], b.fac)
        /\ b' = rebind(b, r.closure)
        /\ err' = errorOf(r)
  /\ out' = NoOut
  /\ call' = Called("prop", name, sub)
  /\ taint' = [taint EXCEPT !.res = taint.b]
  /\ UNCHANGED n

\* S.withOptions({ generateIds }).object().prop(name, b)
Wrap(name, generateIds) ==
  /\ Idle
  /\ b.kind \in {"object", "extended"}
  /\ LET r == prop(S_object(generateIds).oschema, generateIds, name, b, TRUE)
     IN /\ res' = [ok |-> r.ok, val |-> r.val]
        /\ err' = errorOf(r)
  /\ out' = NoOut
  /\ call' = Called("wrap", name, generateIds)
  /\ taint' = [taint EXCEPT !.res = taint.b]
  /\ UNCHANGED <<b, n>>

\* a call of a base or object method that returns a builder and leaves the
\* bindings of b alone
Returns(r, op, name, value) ==
  /\ Idle
  /\ res' = r
  /\ err' = errorOf(r)
  /\ out' = NoOut
  /\ call' = Called(op, name, value)
  /\ taint' = [taint EXCEPT !.res = taint.b \/ (op = "raw" /\ repeats(value))]
  /\ UNCHANGED <<b, n>>

\* b.required()
Required ==
  /\ hasMethods(b)
  /\ Returns(required(b.fac, b.schema, b.gen, <<>>, FALSE), "required", "", <<>>)

\* b.required(list)
RequiredList(list) ==
  /\ hasMethods(b)
  /\ Returns(required(b.fac, b.schema, b.gen, list, TRUE), "requiredList", "", list)

\* b.title(value): a setter of BaseSchema
Title(value) ==
  /\ hasMethods(b)
  /\ Returns(setAttribute(b.fac, b.schema, b.gen, "title", value),
             "title", "title", value)

\* b.ref(value)
Ref(value) ==
  /\ hasMethods(b)
  /\ Returns(setAttribute(b.fac, b.schema, b.gen, "$ref", value),
             "ref", "$ref", value)

\* the lists given to allOf, anyOf and oneOf: builders, b one of them, and a
\* list with a value that is no builder
ComposeLists ==
  {<<SubString>>, <<SubTitle, SubString>>, <<b, SubString>>,
   <<SubString, NoBuilder>>}

\* b.allOf(schemas), b.anyOf(schemas), b.oneOf(schemas)
Compose(key, schemas, isArray) ==
  /\ hasMethods(b)
  /\ Returns(setComposeType(b.fac, b.schema, b.gen, key, schemas, isArray),
             "compose", key, [isArray |-> isArray, schemas |-> schemas])

\* b.ifThen(ifClause, thenClause)
IfThen(ifClause, thenClause) ==
  /\ hasMethods(b)
  /\ Returns(ifThen(b.fac, b.schema, b.gen, ifClause, thenClause),
             "ifThen", "", <<ifClause, thenClause>>)

\* b.ifThenElse(ifClause, thenClause, elseClause)
IfThenElse(ifClause, thenClause, elseClause) ==
  /\ hasMethods(b)
  /\ Returns(ifThenElse(b.fac, b.schema, b.gen, ifClause, thenClause, elseClause),
             "ifThenElse", "", <<ifClause, thenClause, elseClause>>)

\* b.minProperties(value): a setter of ObjectSchema
MinProperties(value) ==
  /\ isObject(b)
  /\ Returns(setAttribute(b.fac, b.oschema, b.gen, "minProperties", value),
             "minProperties", "minProperties", value)

\* b.id(value)
Id(value) ==
  /\ hasMethods(b)
  /\ Returns(IF isObject(b) THEN objectId(b.fac, b.oschema, b.gen, value)
                            ELSE id(b.fac, b.schema, b.gen, value),
             "id", "$id", value)

\* b.raw(fragment)
Raw(fragment) ==
  /\ hasMethods(b)
  /\ Returns(setRaw(b.fac, b.schema, b.gen, fragment), "raw", "", fragment)

\* b.only(names) and b.without(names)
Only(names) ==
  /\ isObject(b)
  /\ Returns(carried(only(b.oschema, b.gen, names), b.fac), "only", "", names)

Without(names) ==
  /\ isObject(b)
  /\ Returns(carried(without(b.oschema, b.gen, names), b.fac),
             "without", "", names)

\* b.definition(name, sub)
Definition(name, sub) ==
  /\ isObject(b)
  /\ Returns(carried(definition(b.oschema, b.gen, name, sub), b.fac),
             "definition", name, <<>>)

\* b.extend(base)
Extend(base) ==
  /\ b.kind \in {"object", "extended"}
  /\ Returns(extend(b.oschema, b.gen, base), "extend", "", base)

\* b = S.raw(fragment)
Ingest(fragment) ==
  /\ Idle
  /\ b' = RawSchema(fragment).val
  /\ res' = NoRes
  /\ out' = NoOut
  /\ call' = Called("ingest", "", fragment)
  /\ err' = "none"
  /\ n' = 0
  /\ taint' = [b |-> repeats(fragment), res |-> FALSE]

\* a JavaScript value given where a plain object is expected: tag is "null",
\* "array", "string" or "object", fragment its own enumerable properties
typeOf(x) == IF x.tag \in {"null", "array", "object"} THEN "object" ELSE x.tag

Values ==
  { [tag |-> "null", fragment |-> <<>>],
    [tag |-> "array", fragment |-> << <<"0", Str("a")>> >>],
    [tag |-> "string", fragment |-> <<>>],
    [tag |-> "object", fragment |-> << <<"title", Str("x")>> >>] }

\* the outcome of a call: what it returns and the error it throws
Raised(error) == [ok |-> FALSE, val |-> NoBuilder, error |-> error]
outcome(r) == [ok |-> r.ok, val |-> r.val, error |-> errorOf(r)]

\* RawSchema of any value: the typeof check, then the destructuring, which
\* throws a TypeError on null
rawOf(x) ==
  IF typeOf(x) # "object" THEN Raised("FluentSchemaError")
  ELSE IF x.tag = "null" THEN Raised("TypeError")
  ELSE outcome(RawSchema(x.fragment))

\* ObjectSchema.prop of any value: the check of the argument, then props.def,
\* which throws a TypeError on null
propOf(schema, generateIds, name, x) ==
  IF x.tag = "array" \/ typeOf(x) # "object" THEN Raised("FluentSchemaError")
  ELSE IF x.tag = "null" THEN Raised("TypeError")
  ELSE outcome(prop(schema, generateIds, name, x.fragment, FALSE))

\* S.withOptions(options).title(value): the default { generateIds: false,
\* factory: BaseSchema } stands for the options only when none are passed,
\* and options.factory(..) throws a TypeError when there is no factory
titleOf(passed, value) ==
  IF passed THEN Raised("TypeError")
  ELSE outcome(setAttribute("base", initialState, FALSE, "title", value))

\* a call with the outcome o, which leaves the bindings of b alone
Outcome(o, op, name, value) ==
  /\ Idle
  /\ res' = [ok |-> o.ok, val |-> o.val]
  /\ err' = o.error
  /\ out' = NoOut
  /\ call' = Called(op, name, value)
  /\ taint' = [taint EXCEPT !.res = FALSE]
  /\ UNCHANGED <<b, n>>

\* S.raw(x)
RawValue(x) == Outcome(rawOf(x), "rawValue", "", x)

\* b.prop(name, x)
PropValue(name, x) ==
  /\ isObject(b)
  /\ Outcome(propOf(b.oschema, b.gen, name, x), "propValue", name, x)

\* S.withOptions({ generateIds: true }).title(value), S.withOptions().title(value)
TitleOnOptions(passed, value) ==
  Outcome(titleOf(passed, value), "titleOnOptions", "", passed)

\* ObjectSchema.extend of a value that is no builder: `!base`, then
\* `!base.isFluentSchema`
extendOf(x) ==
  IF x.tag = "null" THEN Raised("FluentSchemaError")
  ELSE IF ~Has(x.fragment, "isFluentSchema") THEN Raised("FluentSchemaError")
  ELSE Raised("TypeError")

\* b.extend(x)
ExtendValue(x) ==
  /\ b.kind \in {"object", "extended"}
  /\ Outcome(extendOf(x), "extendValue", "", x)

\* S.raw(b.valueOf())
RoundTrip ==
  /\ b.kind # "extended"
  /\ valueOf(b.schema, TRUE).ok
  /\ Returns(RawSchema(valueOf(b.schema, TRUE).val), "roundtrip", "", <<>>)

\* b.not(sub)
Not(sub) ==
  /\ hasMethods(b)
  /\ Returns(not(b.fac, b.schema, b.gen, sub), "not", "", sub)

\* b.minimum(value), ..., b.multipleOf(value)
NumberSetter(key, value) ==
  /\ "number" \in methodsOf(b)
  /\ Returns(numberSetter(b.fac, b.schema, b.gen, key, value),
             "number", key, value)

\* b.items(value)
Items(value, isArray) ==
  /\ "array" \in methodsOf(b)
  /\ Returns(items(b.fac, b.schema, b.gen, value, isArray),
             "items", "", [isArray |-> isArray, items |-> value])

\* S.mixed(types)
Mixed(types, isArray) ==
  Returns(mixed(FALSE, types, isArray), "mixed", "",
          [isArray |-> isArray, types |-> types])

\* b.title(value) on a builder that has no title: calling undefined throws a
\* TypeError
TitleUndefined(value) ==
  /\ ~hasMethods(b)
  /\ Outcome(Raised("TypeError"), "title", "title", value)

\* b.valueOf() and b.valueOf({ isRoot: false })
ValueOf(isRoot) ==
  /\ Idle
  /\ isFluentSchema(b)
  /\ out' = valueOf(b.schema, isRoot)
  /\ err' = errorOf(valueOf(b.schema, isRoot))
  /\ res' = NoRes
  /\ call' = Called("valueOf", "", isRoot)
  /\ UNCHANGED <<b, n, taint>>

\* the calls around prop and required
Next ==
  \/ New("object", FALSE)
  \/ Chain(MaxCalls)
  \/ Drop
  \/ \E name \in Names, sub \in {SubString, SubRequired} : Prop(name, sub)
  \/ Required
  \/ \E l \in {<<Str("a")>>, <<Str("b"), Str("b")>>} : RequiredList(l)
  \/ MinProperties(Str("1"))
  \/ \E r \in BOOLEAN : ValueOf(r)

Spec == Init /\ [][Next]_vars

\* nested schemas and generated ids
NextIds ==
  \/ \E g \in BOOLEAN : New("object", g)
  \/ Chain(MaxCallsIds)
  \/ Drop
  \/ \E name \in Names, sub \in {SubString, SubId} : Prop(name, sub)
  \/ \E name \in Names, g \in BOOLEAN : Wrap(name, g)
  \/ \E name \in DefNames : Definition(name, SubString)
  \/ ValueOf(TRUE)

SpecIds == Init /\ [][NextIds]_vars

\* every operation
NextAll ==
  \/ \E kind \in {"object", "string"}, g \in BOOLEAN : New(kind, g)
  \/ Chain(MaxCallsAll)
  \/ Drop
  \/ \E name \in Names, sub \in Subs : Prop(name, sub)
  \/ \E name \in Names, g \in BOOLEAN : Wrap(name, g)
  \/ Required
  \/ \E l \in RequiredLists : RequiredList(l)
  \/ \E v \in Titles : Title(v)
  \/ \E v \in Counts : MinProperties(v)
  \/ \E v \in Ids : Id(v)
  \/ \E f \in RawFragments : Raw(f)
  \/ \E ns \in NameSets : Only(ns)
  \/ \E ns \in NameSets : Without(ns)
  \/ \E name \in DefNames, sub \in Subs : Definition(name, sub)
  \/ \E base \in Bases : Extend(base)
  \/ \E c \in Clauses : IfThen(c[1], c[2])
  \/ \E f \in ObjectFragments : Ingest(f)
  \/ \E r \in BOOLEAN : ValueOf(r)

SpecAll == Init /\ [][NextAll]_vars

\* the setters of BaseSchema
NextSetters ==
  \/ \E kind \in {"object", "string", "null", "mixed", "base"}, g \in BOOLEAN :
       New(kind, g)
  \/ Chain(MaxCallsSetters)
  \/ Drop
  \/ \E name \in Names, sub \in {SubString, SubRef} : Prop(name, sub)
  \/ \E v \in Titles : Title(v)
  \/ Ref(<<"#", "b">>)
  \/ \E v \in IdValues : Id(v)
  \/ \E key \in {"allOf", "anyOf", "oneOf"}, schemas \in ComposeLists :
       Compose(key, schemas, TRUE)
  \/ Compose("anyOf", <<>>, FALSE)
  \/ \E r \in BOOLEAN : ValueOf(r)

SpecSetters == Init /\ [][NextSetters]_vars

\* the fragments given to S.raw: without type, of type null, of a list of
\* types, of type string
TypedFragments ==
  { << <<"title", Str("x")>> >>,
    << <<"type", Str("null")>> >>,
    << <<"type", <<Str("string"), Str("null")>> >>, <<"title", Str("x")>> >>,
    << <<"title", Str("x")>>, <<"type", Str("string")>> >> }

\* raw ingestion of fragments and of serializations
NextRaw ==
  \/ \E kind \in {"object", "string", "null", "mixed", "base"} :
       New(kind, FALSE)
  \/ Chain(MaxCallsRaw)
  \/ Drop
  \/ \E name \in Names, sub \in {SubString, SubRequired} : Prop(name, sub)
  \/ \E name \in DefNames : Definition(name, SubString)
  \/ \E v \in Titles : Title(v)
  \/ \E f \in TypedFragments \cup ObjectFragments : Ingest(f)
  \/ RoundTrip
  \/ \E x \in Values : RawValue(x)
  \/ \E x \in Values : PropValue("a", x)
  \/ \E passed \in BOOLEAN : TitleOnOptions(passed, Str("x"))
  \/ \E r \in BOOLEAN : ValueOf(r)

SpecRaw == Init /\ [][NextRaw]_vars

\* extend
NextExtend ==
  \/ New("object", FALSE)
  \/ Chain(MaxCallsExtend)
  \/ Drop
  \/ \E name \in Names, sub \in Subs : Prop(name, sub)
  \/ \E name \in DefNames : Definition(name, SubTitle)
  \/ \E v \in Titles : Title(v)
  \/ \E l \in {<<Str("a")>>, <<Str("b"), Str("a")>>} : RequiredList(l)
  \/ \E base \in ExtendBases : Extend(base)
  \/ \E x \in Values : ExtendValue(x)
  \/ \E r \in BOOLEAN : ValueOf(r)

SpecExtend == Init /\ [][NextExtend]_vars

\* the lists given to mixed: empty, of one kind, of two, with object, with
\* integer, and with a name that is no kind
MixedTypes ==
  { <<>>,
    <<Str("string")>>,
    <<Str("string"), Str("number")>>,
    <<Str("string"), Str("object")>>,
    <<Str("integer"), Str("null")>>,
    <<Str("string"), Str("foo")>> }

NumberKeys ==
  {"minimum", "maximum", "exclusiveMinimum", "exclusiveMaximum", "multipleOf"}

\* the values given to the setters of NumberSchema: 1, 1.5 and 'a'
NumberValues == {Str("1"), Str("1.5"), Str("a")}

\* the arrays given to items
ItemLists ==
  {<<>>, <<SubString>>, <<SubTitle, SubString>>, <<SubString, NoBuilder>>,
   <<NoBuilder>>}

\* the kinds of builders and their setters
NextKinds ==
  \/ \E kind \in {"object", "string", "number", "integer", "boolean", "array",
                  "null"} : New(kind, FALSE)
  \/ Chain(MaxCallsKinds)
  \/ Drop
  \/ \E types \in MixedTypes : Mixed(types, TRUE)
  \/ Mixed(Str("string"), FALSE)
  \/ Ingest(<< <<"type", Str("integer")>> >>)
  \/ Title(Str("x"))
  \/ TitleUndefined(Str("x"))
  \/ \E sub \in {SubString, NoBuilder} : Not(sub)
  \/ Prop("a", SubString)
  \/ Only({Str("a")})
  \/ Extend(SubObject)
  \/ \E key \in NumberKeys, v \in NumberValues : NumberSetter(key, v)
  \/ \E l \in ItemLists : Items(l, TRUE)
  \/ \E v \in {SubString, SubRequired, NoBuilder} : Items(v, FALSE)
  \/ \E r \in BOOLEAN : ValueOf(r)

SpecKinds == Init /\ [][NextKinds]_vars

\* the clauses of ifThen and ifThenElse
NextClauses ==
  \/ \E kind \in {"object", "string"}, g \in BOOLEAN : New(kind, g)
  \/ Chain(MaxCallsClauses)
  \/ Drop
  \/ Prop("a", SubString)
  \/ Title(Str("x"))
  \/ \E c \in ClausePairs : IfThen(c[1], c[2])
  \/ \E c \in ClauseTriples : IfThenElse(c[1], c[2], c[3])
  \/ \E r \in BOOLEAN : ValueOf(r)

SpecClauses == Init /\ [][NextClauses]_vars

\* ------------------------------------------------------------------------
\* Properties
\* ------------------------------------------------------------------------
\* the operations that are calls on b
CallOps ==
  {"prop", "required", "requiredList", "title", "minProperties", "id", "raw",
   "only", "without", "definition", "extend", "ifThen", "valueOf"}

requiredOf(schema) ==
  IF Has(schema, "required") THEN Get(schema, "required") ELSE <<>>

propertiesOf(schema) ==
  IF Has(schema, "properties") THEN Get(schema, "properties") ELSE <<>>

\* name of the most recently added property of a builder state
lastName(schema) ==
  Get(propertiesOf(schema)[Len(propertiesOf(schema))], "name")

\* the non-root serialization of a builder
serialized(builder) == valueOf(builder.schema, FALSE).val

\* C1: whatever call is made on b, and whether it returns or raises,
\* b.valueOf() (root and non-root) is the same after the call as before
C1_ValueOfUnchanged ==
  [][call'.op \in CallOps =>
       /\ valueOf(b'.schema, TRUE) = valueOf(b.schema, TRUE)
       /\ valueOf(b'.schema, FALSE) = valueOf(b.schema, FALSE)]_vars

\* a prop call has returned after rebinding `schema` in the closures of b
C1_Witness == call.op = "prop" /\ res.ok /\ b.oschema # b.schema

\* C2: a builder is a template: what b.prop(name, sub) and b.minProperties(v)
\* return is what they return on b as it was constructed, whatever calls
\* were made on b before
C2_TemplateReuse ==
  /\ call.op = "prop" =>
       LET fresh == prop(b.schema, b.gen, call.name, call.value, TRUE)
       IN res = [ok |-> fresh.ok, val |-> fresh.val]
  /\ call.op = "minProperties" =>
       res = setAttribute(b.fac, b.schema, b.gen, "minProperties", call.value)

\* the keyword a setter call sets
keyOf(c) == IF c.op = "id" THEN "$id" ELSE c.op

\* C3: a single-keyword setter called on a builder with properties attaches
\* the keyword to the last property and leaves the root attributes, the
\* required list, the definitions and the other properties as they were;
\* without properties the keyword is set on the root; id() on an object
\* builder always sets the root $id
C3_AttributeTargeting ==
  (call.op \in {"title", "minProperties", "id"} /\ res.ok) =>
    LET before == serialized(b)
        after  == serialized(res.val)
        key    == keyOf(call)
    IN IF hasProps(b.schema) /\ ~(call.op = "id" /\ isObject(b))
         THEN LET name == lastName(b.schema)[1]
              IN /\ Has(Get(Get(after, "properties"), name), key)
                 /\ Rest(after, {"properties"}) = Rest(before, {"properties"})
                 /\ \A i \in DOMAIN Get(before, "properties") :
                      LET other == Get(before, "properties")[i][1]
                      IN other # name =>
                           Get(Get(after, "properties"), other)
                             = Get(Get(before, "properties"), other)
         ELSE Get(after, key) = call.value

\* C4: when the last property already holds a value for the keyword of a
\* setter call, the property carries the newly supplied value afterwards
C4_NewValueWins ==
  (call.op = "title" /\ res.ok /\ hasProps(b.schema)) =>
    Get(Get(Get(serialized(res.val), "properties"), lastName(b.schema)[1]),
        "title") = call.value

\* C5: a no-argument required() on a builder whose last property is n, n not
\* yet required, returns a builder whose required list is the list of b
\* followed by n and whose properties are those of b; and a prop call with a
\* sub-schema without sentinel, on a builder as it was returned (the next
\* call of a chain), leaves the required list as it is
C5_RequiredAppendsName ==
  /\ (call.op = "required" /\ hasProps(b.schema)
        /\ ~Includes(requiredOf(b.schema), lastName(b.schema))) =>
       /\ res.ok
       /\ requiredOf(res.val.schema)
            = Append(requiredOf(b.schema), lastName(b.schema))
       /\ propertiesOf(res.val.schema) = propertiesOf(b.schema)
  /\ (call.op = "prop" /\ b.oschema = b.schema
        /\ ~Includes(requiredOf(call.value.schema), REQUIRED)) =>
       /\ res.ok
       /\ requiredOf(res.val.schema) = requiredOf(b.schema)

\* required() has appended 'b', the second property, to a list holding 'a'
C5_Witness ==
  /\ call.op = "required"
  /\ res.ok
  /\ requiredOf(res.val.schema) = <<Str("a"), Str("b")>>
  /\ Len(propertiesOf(b.schema)) = 2

\* C6: prop(name, sub) with a sub-schema whose required list holds the
\* sentinel returns a builder whose required list is the list of b followed
\* by name; the entry of the property has no sentinel, and its own required
\* list is the list of the string entries of sub, in order
C6_NestedRequired ==
  (call.op = "prop" /\ Includes(requiredOf(call.value.schema), REQUIRED)
     /\ ~Includes(requiredOf(b.schema), Str(call.name))) =>
    /\ res.ok
    /\ requiredOf(res.val.schema) = Append(requiredOf(b.schema), Str(call.name))
    /\ LET entries == propertiesOf(res.val.schema)
           entry == entries[Len(entries)]
       IN /\ Get(entry, "name") = Str(call.name)
          /\ requiredOf(entry)
               = SelectSeq(requiredOf(call.value.schema),
                           LAMBDA v : v # REQUIRED)

\* C7: required() after prop(n) with n already required, required(list) with
\* a repeated name or a name already required, and prop(n, sub) with sub
\* holding the sentinel and n already required raise, return no builder and
\* leave b as it was
C7_DuplicateRequiredRejected ==
  [][LET rejected == ~res'.ok /\ res'.val = NoBuilder /\ b' = b
     IN /\ (call'.op = "required" /\ hasProps(b.schema)
              /\ Includes(requiredOf(b.schema), lastName(b.schema)))
             => rejected
        /\ (call'.op = "requiredList"
              /\ (\/ Repeats(call'.value)
                  \/ \E i \in DOMAIN call'.value :
                       Includes(requiredOf(b.schema), call'.value[i])))
             => rejected
        /\ (call'.op = "prop"
              /\ Includes(requiredOf(call'.value.schema), REQUIRED)
              /\ Includes(requiredOf(b.schema), Str(call'.name)))
             => rejected]_vars

\* prop(n, sub.required()) has raised on a builder in which n is required
C7_Witness ==
  /\ call.op = "prop"
  /\ ~res.ok
  /\ Includes(requiredOf(call.value.schema), REQUIRED)
  /\ Includes(requiredOf(b.schema), Str(call.name))

\* C8 as stated: no builder holds a required list with a repeated entry,
\* whatever the operations (raw and raw ingestion included), and neither
\* does a root serialization
C8_RequiredUnique ==
  /\ ~Repeats(requiredOf(b.schema))
  /\ ~Repeats(requiredOf(b.oschema))
  /\ res.ok => ~Repeats(requiredOf(res.val.schema))
  /\ (call.op = "valueOf" /\ out.ok) => ~Repeats(requiredOf(out.val))

\* C8 amended: the same, for the builders no raw fragment with a repeated
\* name in its own required array went into
C8_RequiredUniqueOfValidFragments ==
  /\ ~taint.b => ~Repeats(requiredOf(b.schema))
  /\ ~taint.b => ~Repeats(requiredOf(b.oschema))
  /\ (res.ok /\ ~taint.res) => ~Repeats(requiredOf(res.val.schema))
  /\ (call.op = "valueOf" /\ out.ok /\ ~taint.b)
       => ~Repeats(requiredOf(out.val))

\* extend has merged two non-empty required lists
C8_Witness ==
  /\ call.op = "extend"
  /\ res.ok
  /\ ~taint.res
  /\ Len(requiredOf(b.schema)) > 0
  /\ Len(requiredOf(res.val.schema)) > Len(requiredOf(b.schema))

\* C9: valueOf raises exactly when isRoot is true and the required list
\* holds an entry that is no string
C9_RootSentinelRejected ==
  call.op = "valueOf" =>
    (out.ok <=> ~(call.value /\ Includes(requiredOf(b.schema), REQUIRED)))

\* a root valueOf has raised, on a builder whose required list holds the
\* sentinel
C9_Witness ==
  /\ call.op = "valueOf"
  /\ call.value
  /\ ~out.ok
  /\ Includes(requiredOf(b.schema), REQUIRED)

\* some property below obj has an $id made from one a caller has set
RECURSIVE hasExplicitId(_)
hasExplicitId(obj) ==
  \E i \in DOMAIN propertiesOf(obj) :
    \/ \E v \in Ids : Includes(Get(propertiesOf(obj)[i][2], "$id"), v[1])
    \/ hasExplicitId(propertiesOf(obj)[i][2])

\* every property below obj has the $id made of the path from the root
RECURSIVE idsFollowPath(_, _)
idsFollowPath(obj, prefix) ==
  \A i \in DOMAIN propertiesOf(obj) :
    LET name == propertiesOf(obj)[i][1]
        sub == propertiesOf(obj)[i][2]
        expected == prefix \o <<"properties", "/", name>>
    IN /\ Get(sub, "$id") = expected
       /\ idsFollowPath(sub, expected \o <<"/">>)

\* C10: in a schema whose root was created with generateIds and in which no
\* $id was set, the $id of a property at any depth is '#' followed by the
\* path of properties/<name> segments from the root, and the $id of a
\* definition of the root is '#definitions/<name>'
C10_AutoIdPath ==
  (call.op \in {"prop", "wrap", "definition"} /\ res.ok /\ res.val.gen
     /\ ~hasExplicitId(serialized(res.val))) =>
    LET doc == serialized(res.val)
    IN /\ idsFollowPath(doc, <<"#">>)
       /\ Has(doc, "definitions") =>
            \A i \in DOMAIN Get(doc, "definitions") :
              Get(Get(doc, "definitions")[i][2], "$id")
                = <<"#", "definitions", "/", Get(doc, "definitions")[i][1]>>

\* C11: the $id a caller has set on a sub-schema is the $id serialized for it,
\* at depth 1 (prop(name, sub)) and at depth 2 (b, holding the sub-schema as
\* a property, given to prop of a new root), whatever generateIds
C11_ExplicitIdWins ==
  /\ (call.op = "prop" /\ res.ok /\ Get(call.value.schema, "$id") \in Ids) =>
       Get(Get(propertiesOf(serialized(res.val)), call.name), "$id")
         = Get(call.value.schema, "$id")
  /\ (call.op = "wrap" /\ res.ok) =>
       \A i \in DOMAIN propertiesOf(serialized(b)) :
         LET inner == propertiesOf(serialized(b))[i]
             outer == Get(propertiesOf(serialized(res.val)), call.name)
         IN Get(inner[2], "$id") \in Ids =>
              Get(Get(propertiesOf(outer), inner[1]), "$id")
                = Get(inner[2], "$id")

\* the serialized entry of property name of a builder
entryOf(builder, name) == Get(propertiesOf(serialized(builder)), name)

\* C12: prop(name, sub) with sub declaring $ref serializes the property as
\* exactly { $ref }, with generateIds too; so does ref() on the last
\* property; and a setter chained onto such a property leaves it so
C12_RefCollapsed ==
  /\ (call.op = "prop" /\ res.ok /\ Truthy(Get(call.value.schema, "$ref"))) =>
       entryOf(res.val, call.name)
         = << <<"$ref", Get(call.value.schema, "$ref")>> >>
  /\ (call.op = "ref" /\ res.ok /\ hasProps(b.schema)
        /\ ~Has(entryOf(b, lastName(b.schema)[1]), "$ref")) =>
       entryOf(res.val, lastName(b.schema)[1]) = << <<"$ref", call.value>> >>
  /\ (call.op \in {"title", "ref"} /\ res.ok /\ hasProps(b.schema)
        /\ Has(entryOf(b, lastName(b.schema)[1]), "$ref")) =>
       /\ Len(entryOf(res.val, lastName(b.schema)[1])) = 1
       /\ entryOf(res.val, lastName(b.schema)[1])
            = entryOf(b, lastName(b.schema)[1])

\* title() has returned, called on a builder with generateIds whose last
\* property is a $ref
C12_Witness ==
  /\ call.op = "title"
  /\ res.ok
  /\ b.gen
  /\ hasProps(b.schema)
  /\ Has(entryOf(b, lastName(b.schema)[1]), "$ref")

\* no $schema key in obj or below it
RECURSIVE noSchemaKey(_)
noSchemaKey(obj) ==
  /\ ~Has(obj, "$schema")
  /\ \A i \in DOMAIN obj :
       /\ obj[i][1] \in {"properties", "definitions"} =>
            \A j \in DOMAIN obj[i][2] : noSchemaKey(obj[i][2][j][2])
       /\ obj[i][1] \in {"allOf", "anyOf", "oneOf"} =>
            \A j \in DOMAIN obj[i][2] : noSchemaKey(obj[i][2][j])

\* C13: allOf, anyOf and oneOf raise unless given an array of builders;
\* otherwise they return a builder whose serialization is that of b with the
\* keyword set to the non-root serializations of the builders, in order and
\* without $schema; and nothing below the root of a serialization holds
\* $schema
C13_ComposeEmbeds ==
  /\ call.op = "compose" =>
       IF /\ call.value.isArray
          /\ \A i \in DOMAIN call.value.schemas :
               call.value.schemas[i].kind # "none"
         THEN /\ res.ok
              /\ Get(serialized(res.val), call.name)
                   = [i \in DOMAIN call.value.schemas |->
                        Rest(serialized(call.value.schemas[i]), {"$schema"})]
              /\ Rest(serialized(res.val), {call.name})
                   = Rest(serialized(b), {call.name})
         ELSE ~res.ok /\ res.val = NoBuilder
  /\ res.ok => noSchemaKey(Rest(serialized(res.val), {"$schema"}))

\* oneOf has embedded two builders, the first b itself, holding a property
C13_Witness ==
  /\ call.op = "compose"
  /\ res.ok
  /\ Len(call.value.schemas) = 2
  /\ call.value.schemas[1] = b
  /\ hasProps(b.schema)

\* C14: only(names) returns a builder with the properties and the required
\* names of b that are in names, in their order, and without(names) with
\* those that are not; neither has an $id, and the other root attributes and
\* the definitions are those of b
C14_OnlyWithout ==
  call.op \in {"only", "without"} =>
    LET before == serialized(b)
        after == serialized(res.val)
        kept(v) == IF call.op = "only" THEN v \in call.value
                   ELSE v \notin call.value
    IN /\ res.ok
       /\ propertiesOf(after)
            = SelectSeq(propertiesOf(before), LAMBDA e : kept(Str(e[1])))
       /\ requiredOf(after) = SelectSeq(requiredOf(before), kept)
       /\ ~Has(after, "$id")
       /\ Rest(after, {"properties", "required", "$id"})
            = Rest(before, {"properties", "required", "$id"})

\* deep equality of plain objects: the same keys with deep-equal values,
\* whatever the order of the keys
RECURSIVE deepEqual(_, _)
deepEqual(x, y) ==
  /\ Len(x) = Len(y)
  /\ \A i \in DOMAIN x :
       /\ Has(y, x[i][1])
       /\ IF x[i][1] \in {"properties", "definitions"}
            THEN /\ Len(x[i][2]) = Len(Get(y, x[i][1]))
                 /\ \A j \in DOMAIN x[i][2] :
                      /\ Has(Get(y, x[i][1]), x[i][2][j][1])
                      /\ deepEqual(x[i][2][j][2],
                                   Get(Get(y, x[i][1]), x[i][2][j][1]))
            ELSE x[i][2] = Get(y, x[i][1])

\* C15: S.raw(b.valueOf()).valueOf() is deep-equal to b.valueOf(), for b of
\* every kind
C15_RoundTrip ==
  call.op = "roundtrip" =>
    /\ res.ok
    /\ valueOf(res.val.schema, TRUE).ok
    /\ deepEqual(valueOf(res.val.schema, TRUE).val, valueOf(b.schema, TRUE).val)

\* C16: S.raw(fragment) with a type that is none of string, integer, number,
\* boolean, object, array returns a builder whose serialization has every key
\* of the fragment, with the value it has in the fragment
C16_VerbatimFragment ==
  (call.op = "ingest"
     /\ Get(call.value, "type") \notin
          {Str("string"), Str("integer"), Str("number"), Str("boolean"),
           Str("object"), Str("array")}) =>
    /\ valueOf(b.schema, TRUE).ok
    /\ \A i \in DOMAIN call.value :
         /\ Has(valueOf(b.schema, TRUE).val, call.value[i][1])
         /\ Get(valueOf(b.schema, TRUE).val, call.value[i][1]) = call.value[i][2]

\* the place of a key in the object valueOf returns
rank(key) ==
  CASE key = "$schema" -> 0
    [] key = "definitions" -> 1
    [] key = "properties" -> 3
    [] key = "required" -> 4
    [] key = "if" -> 5
    [] key = "then" -> 6
    [] key = "else" -> 7
    [] OTHER -> 2

keysOf(obj) == [i \in DOMAIN obj |-> obj[i][1]]

\* the keys of doc come in the order of their ranks, the root attributes in
\* the order they have in the state, and no empty list is among the values
ordered(doc, schema) ==
  /\ \A i, j \in DOMAIN doc : i < j => rank(doc[i][1]) <= rank(doc[j][1])
  /\ SelectSeq(keysOf(doc), LAMBDA k : rank(k) = 2)
       = SelectSeq(keysOf(schema), LAMBDA k : rank(k) = 2)
  /\ \A i \in DOMAIN doc :
       doc[i][1] \in {"definitions", "properties", "required"}
         => Len(doc[i][2]) > 0

\* C17: the object valueOf returns for a builder lists $schema, definitions,
\* the other root attributes, properties, required, if, then, else in this
\* order, whatever the order of the calls that made the builder
C17_KeyOrder ==
  /\ ordered(valueOf(b.schema, FALSE).val, b.schema)
  /\ res.ok => ordered(valueOf(res.val.schema, FALSE).val, res.val.schema)
  /\ (call.op = "valueOf" /\ out.ok) => ordered(out.val, b.schema)

\* prop has returned, called on a builder on which ifThen was called before
C17_Witness ==
  /\ call.op = "prop"
  /\ res.ok
  /\ Has(b.schema, "if")
  /\ Has(valueOf(res.val.schema, FALSE).val, "properties")
  /\ Has(valueOf(res.val.schema, FALSE).val, "then")

\* C18: valueOf() of a builder made from the entry points holds $schema, the
\* draft-07 URI, and valueOf({ isRoot: false }) holds no $schema
C18_SchemaKeyword ==
  (call.op = "valueOf" /\ out.ok) =>
    IF call.value
      THEN Get(out.val, "$schema") = Get(initialState, "$schema")
      ELSE ~Has(out.val, "$schema")

\* C19: id('') and id('#') raise, on every kind of builder, and the $id of a
\* builder id has returned is neither
C19_IdRejected ==
  call.op = "id" =>
    /\ call.value \in {<<>>, <<"#">>} => ~res.ok
    /\ res.ok =>
         \A i \in DOMAIN res.val.schema :
           res.val.schema[i][1] = "$id"
             => res.val.schema[i][2] \notin {<<>>, <<"#">>}

\* C20: a call that fails throws FluentSchemaError and returns no builder;
\* S.raw(x) with x null, an array or no object, prop(name, null) and a base
\* setter on S.withOptions({ generateIds: true }) fail so
C20_SingleErrorKind ==
  /\ err \in {"none", "FluentSchemaError"}
  /\ err # "none" => ~res.ok /\ res.val = NoBuilder
  /\ (call.op = "rawValue" /\ call.value.tag # "object")
       => err = "FluentSchemaError"
  /\ (call.op = "propValue" /\ call.value.tag = "null")
       => err = "FluentSchemaError"
  /\ (call.op = "titleOnOptions" /\ call.value) => err = "FluentSchemaError"

\* the map under key of a serialization
mapOf(doc, key) == IF Has(doc, key) THEN Get(doc, key) ELSE <<>>

\* the names of base, then the names cur alone has
mergedNames(base, cur) ==
  keysOf(base) \o SelectSeq(keysOf(cur), LAMBDA k : ~Has(base, k))

\* entry has every keyword of curEntry with its value, and the keywords
\* baseEntry alone has with theirs
entryMerged(entry, baseEntry, curEntry) ==
  /\ \A i \in DOMAIN curEntry :
       curEntry[i][1] \notin ArrayKeys
         => Get(entry, curEntry[i][1]) = curEntry[i][2]
  /\ \A i \in DOMAIN baseEntry :
       (baseEntry[i][1] \notin ArrayKeys /\ ~Has(curEntry, baseEntry[i][1]))
         => Get(entry, baseEntry[i][1]) = baseEntry[i][2]

\* the properties or the definitions of after are those of base and cur merged
namesMerged(after, base, cur) ==
  /\ keysOf(after) = mergedNames(base, cur)
  /\ \A i \in DOMAIN after :
       IF Has(base, after[i][1]) /\ Has(cur, after[i][1])
         THEN entryMerged(after[i][2], Get(base, after[i][1]),
                          Get(cur, after[i][1]))
       ELSE IF Has(base, after[i][1])
         THEN after[i][2] = Get(base, after[i][1])
       ELSE after[i][2] = Get(cur, after[i][1])

\* C21: b.extend(base), base an object builder, returns a builder whose
\* serialization holds every property and definition name of base and of b
\* once, the names of base first; a name of both carries the keywords of both
\* entries, with the value of b where both have one; and required is the list
\* of base followed by the names b alone requires, none twice
C21_ExtendMerges ==
  (call.op = "extend" /\ isObject(call.value)) =>
    /\ res.ok
    /\ \A key \in {"properties", "definitions"} :
         namesMerged(mapOf(serialized(res.val), key),
                     mapOf(serialized(call.value), key),
                     mapOf(serialized(b), key))
    /\ requiredOf(serialized(res.val))
         = requiredOf(serialized(call.value)) \o
           SelectSeq(requiredOf(serialized(b)),
                     LAMBDA q : ~Includes(requiredOf(serialized(call.value)), q))
    /\ ~Repeats(requiredOf(serialized(res.val)))

\* C22: extend raises FluentSchemaError, and returns no builder, when its
\* argument is null, a plain object or another value that is no builder, and
\* when it is a builder of another kind than object
C22_ExtendRejects ==
  /\ call.op = "extendValue" =>
       err = "FluentSchemaError" /\ ~res.ok /\ res.val = NoBuilder
  /\ (call.op = "extend" /\ ~isObject(call.value)) =>
       err = "FluentSchemaError" /\ ~res.ok /\ res.val = NoBuilder

\* C23: a call of title, not, prop, only, extend, a setter of NumberSchema or
\* items that returns, returns a builder with the methods of b: valueOf, the
\* setters of BaseSchema and those of the kind of b; and every builder has
\* the setters of BaseSchema, so that calling one is no TypeError
C23_KindPreserved ==
  /\ (call.op \in {"title", "not", "prop", "only", "extend", "number", "items"}
        /\ res.ok) => methodsOf(res.val) = methodsOf(b)
  /\ call.op = "title" => err # "TypeError"

\* C24: mixed(types) raises FluentSchemaError when types is no array or holds
\* a name that is no kind; otherwise it returns a builder that has valueOf,
\* whose serialization has type equal to types, and that has the setters of
\* every kind of types; and a setter called on a mixed builder returns a
\* builder with the same methods
C24_MixedOverlay ==
  /\ call.op = "mixed" =>
       IF ~call.value.isArray
            \/ \E i \in DOMAIN call.value.types : call.value.types[i] \notin TYPES
         THEN ~res.ok /\ res.val = NoBuilder /\ err = "FluentSchemaError"
         ELSE /\ res.ok
              /\ methodsOf(res.val) # {}
              /\ valueOf(res.val.schema, TRUE).ok
              /\ Get(valueOf(res.val.schema, TRUE).val, "type") = call.value.types
              /\ \A i \in DOMAIN call.value.types :
                   groupsOf(call.value.types[i][1]) \subseteq methodsOf(res.val)
  /\ (b.kind = "mixed" /\ call.op \in {"title", "number"} /\ res.ok) =>
       /\ res.val.kind = "mixed"
       /\ methodsOf(res.val) = methodsOf(b)

\* the kind of b is integer: the type of its schema is 'integer' or a list
\* that includes it
ofKindInteger(builder) ==
  IF builder.kind = "mixed"
    THEN Includes(Get(builder.schema, "type"), Str("integer"))
    ELSE Get(builder.schema, "type") = Str("integer")

\* C25: minimum, maximum, exclusiveMinimum, exclusiveMaximum and multipleOf
\* raise FluentSchemaError for a value that is no number, and for a number
\* that is no integer when the kind of b is integer (integer(),
\* raw({ type: 'integer' }), a mixed builder with 'integer'); otherwise they
\* return a builder
C25_NumericBounds ==
  call.op = "number" =>
    IF call.value \notin Numbers \/ (ofKindInteger(b) /\ ~isInteger(call.value))
      THEN ~res.ok /\ res.val = NoBuilder /\ err = "FluentSchemaError"
      ELSE res.ok /\ Get(serialized(res.val), call.name) = call.value

\* what ifThen stores for a clause: the root serialization of the clause
\* without $schema, definitions and type; the properties differ in $id only,
\* which with generateIds is parentId/properties/<name> unless the caller has
\* set one, and without is what the clause has
clauseStored(stored, clause, generateIds, parentId) ==
  LET doc == Rest(valueOf(clause.schema, TRUE).val,
                  {"$schema", "definitions", "type"})
  IN /\ Rest(stored, {"properties"}) = Rest(doc, {"properties"})
     /\ keysOf(stored) = keysOf(doc)
     /\ keysOf(propertiesOf(stored)) = keysOf(propertiesOf(doc))
     /\ \A i \in DOMAIN propertiesOf(doc) :
          LET name == propertiesOf(doc)[i][1]
              before == propertiesOf(doc)[i][2]
              after == propertiesOf(stored)[i][2]
          IN /\ Rest(after, {"$id"}) = Rest(before, {"$id"})
             /\ IF ~generateIds THEN Get(after, "$id") = Get(before, "$id")
                ELSE Get(before, "$id") \notin Ids =>
                       Get(after, "$id")
                         = parentId \o <<"/", "properties", "/", name>>

\* C26: ifThen and ifThenElse raise FluentSchemaError when a clause is no
\* builder; otherwise the serialization of the builder they return is that of
\* b with if, then (and else) set to what the clauses serialize to without
\* $schema, definitions and type, the $id of the clause properties being
\* '#if/properties/<name>' (then, else) with generateIds and not synthesized
\* without; ifThen leaves else as it was; a clause whose own valueOf raises
\* makes the call raise
C26_ConditionalClauses ==
  call.op \in {"ifThen", "ifThenElse"} =>
    IF \E i \in DOMAIN call.value :
         call.value[i].kind = "none" \/ ~valueOf(call.value[i].schema, TRUE).ok
      THEN ~res.ok /\ res.val = NoBuilder /\ err = "FluentSchemaError"
      ELSE /\ res.ok
           /\ Rest(serialized(res.val), {"if", "then", "else"})
                = Rest(serialized(b), {"if", "then", "else"})
           /\ clauseStored(Get(serialized(res.val), "if"), call.value[1],
                           b.gen, <<"#", "if">>)
           /\ clauseStored(Get(serialized(res.val), "then"), call.value[2],
                           b.gen, <<"#", "then">>)
           /\ IF call.op = "ifThenElse"
                THEN clauseStored(Get(serialized(res.val), "else"),
                                  call.value[3], b.gen, <<"#", "else">>)
                ELSE /\ Has(serialized(res.val), "else")
                          = Has(serialized(b), "else")
                     /\ Get(serialized(res.val), "else")
                          = Get(serialized(b), "else")

\* ifThen has returned, called with generateIds on a builder that holds an
\* else clause, and with a clause that holds a property
C26_Witness ==
  /\ call.op = "ifThen"
  /\ res.ok
  /\ b.gen
  /\ Has(b.schema, "else")
  /\ Len(propertiesOf(Get(serialized(res.val), "if"))) > 0

\* the root serialization of a builder, without $schema
itemSerialized(builder) == Rest(valueOf(builder.schema, TRUE).val, {"$schema"})

\* C27: items(x) raises FluentSchemaError unless x is a builder or a
\* non-empty array of builders; for a builder, the serialization of what it
\* returns has items set to the serialization of x without $schema, and for
\* an array to those of its elements, in order
C27_Items ==
  call.op = "items" =>
    IF call.value.isArray
      THEN IF /\ Len(call.value.items) > 0
              /\ \A i \in DOMAIN call.value.items :
                   call.value.items[i].kind # "none"
             THEN /\ res.ok
                  /\ Get(serialized(res.val), "items")
                       = [i \in DOMAIN call.value.items |->
                            itemSerialized(call.value.items[i])]
             ELSE ~res.ok /\ res.val = NoBuilder /\ err = "FluentSchemaError"
    ELSE IF call.value.items.kind = "none"
      THEN ~res.ok /\ res.val = NoBuilder /\ err = "FluentSchemaError"
    ELSE valueOf(call.value.items.schema, TRUE).ok =>
           /\ res.ok
           /\ Get(serialized(res.val), "items") = itemSerialized(call.value.items)

\* the names of a list of named entries
namesOf(list) == [i \in DOMAIN list |-> Get(list[i], "name")]

definitionsOf(schema) ==
  IF Has(schema, "definitions") THEN Get(schema, "definitions") ELSE <<>>

\* C28: when the properties list and the definitions list of b hold no name
\* twice, neither do those of the builder a setter, raw or required returns,
\* and they are as long as those of b; prop with a name b does not hold
\* returns a builder whose properties list is one longer and holds no name
\* twice, and so does definition for the definitions list
C28_UniqueNames ==
  (res.ok /\ ~Repeats(namesOf(propertiesOf(b.schema)))
     /\ ~Repeats(namesOf(definitionsOf(b.schema)))) =>
    /\ call.op \in {"title", "minProperties", "id", "raw", "required",
                    "requiredList"} =>
         /\ ~Repeats(namesOf(propertiesOf(res.val.schema)))
         /\ Len(propertiesOf(res.val.schema)) = Len(propertiesOf(b.schema))
         /\ definitionsOf(res.val.schema) = definitionsOf(b.schema)
    /\ (call.op = "prop"
          /\ ~Includes(namesOf(propertiesOf(b.schema)), Str(call.name))) =>
         /\ ~Repeats(namesOf(propertiesOf(res.val.schema)))
         /\ Len(propertiesOf(res.val.schema)) = Len(propertiesOf(b.schema)) + 1
    /\ (call.op = "definition"
          /\ ~Includes(namesOf(definitionsOf(b.schema)), Str(call.name))) =>
         /\ ~Repeats(namesOf(definitionsOf(res.val.schema)))
         /\ Len(definitionsOf(res.val.schema)) = Len(definitionsOf(b.schema)) + 1

\* no required array in doc or below it holds the sentinel
RECURSIVE noSentinel(_)
noSentinel(doc) ==
  /\ ~Includes(requiredOf(doc), REQUIRED)
  /\ \A i \in DOMAIN doc :
       /\ doc[i][1] \in {"properties", "definitions"} =>
            \A j \in DOMAIN doc[i][2] : noSentinel(doc[i][2][j][2])
       /\ doc[i][1] \in {"allOf", "anyOf", "oneOf"} =>
            \A j \in DOMAIN doc[i][2] : noSentinel(doc[i][2][j])
       /\ doc[i][1] \in {"if", "then", "else", "not"} => noSentinel(doc[i][2])

\* C29: the object a root valueOf returns holds the sentinel in no required
\* array, at any depth
C29_NoSentinelInDocument ==
  (call.op = "valueOf" /\ call.value /\ out.ok) => noSentinel(out.val)

\* C30: the required list of the builder required(names) or required()
\* returns is the list of b followed by the new entries: the names given, or
\* one entry for the call without argument
C30_RequiredGrows ==
  /\ (call.op = "requiredList" /\ res.ok) =>
       requiredOf(res.val.schema) = requiredOf(b.schema) \o call.value
  /\ (call.op = "required" /\ res.ok) =>
       /\ Len(requiredOf(res.val.schema)) = Len(requiredOf(b.schema)) + 1
       /\ SubSeq(requiredOf(res.val.schema), 1, Len(requiredOf(b.schema)))
            = requiredOf(b.schema)

====
